---------------------------- MODULE Spec2Model ----------------------------
(***************************************************************************)
(* Solar harvestable-energy predictor (app.py): the Streamlit script as a  *)
(* state machine.  One request is one run of the script with submit=True:  *)
(* assemble the feature mapping, validate it against the expected feature  *)
(* names, call the model, clamp, convert, display.                         *)
(*                                                                         *)
(* Number representation.                                                  *)
(*   "num"   a float, in hundredths          (20.0  is Num(2000))          *)
(*   "int"   a Python int                    (180   is Int(180))           *)
(*   "fix18" a float in [-2,2] given as <<hi, lo>> = hi*10^-9 + lo*10^-18, *)
(*           0 <= lo < 10^9: the IEEE-754 double the expression evaluates  *)
(*           to, rounded to the nearest 10^-18                             *)
(*   "nan"   float NaN                                                     *)
(*   "undef" a name the script has not assigned in this run                *)
(* Products of two "num" values are in units of 10^-4 ("num4").            *)
(***************************************************************************)
EXTENDS Integers, Sequences, FiniteSets, TLC

VARIABLES
  model,               \* app.py:10  the loaded regressor (a stub)
  features,            \* app.py:11  the expected feature names, in order
  hour, dayofyear,     \* app.py:33-34  sliders
  temperature, humidity, pressure, wind_speed,
  precipitable_water, solar_zenith,   \* app.py:37-42  number inputs
  submit,              \* app.py:44
  pc,                  \* position of the current script run
  input_data,          \* app.py:68
  X_input,             \* app.py:85, 95  columns <<[name, value]>>
  missing_features,    \* app.py:90
  raw_pred,            \* value of model.predict(X_input)[0] at app.py:100
  ghi_pred,            \* app.py:100-101
  harvestable_energy,  \* app.py:107
  shown,               \* what the page shows: st.error / st.success
  calls,               \* model.predict invocations in this script run
  requests,            \* submissions so far
  first                \* the first request: what it started from, its outcome

vars == <<model, features, hour, dayofyear, temperature, humidity, pressure,
          wind_speed, precipitable_water, solar_zenith, submit, pc,
          input_data, X_input, missing_features, raw_pred, ghi_pred,
          harvestable_energy, shown, calls, requests, first>>

widgets == <<hour, dayofyear, temperature, humidity, pressure, wind_speed,
             precipitable_water, solar_zenith>>

-----------------------------------------------------------------------------
(* Values *)

Undef == [kind |-> "undef", val |-> 0]
NaN == [kind |-> "nan", val |-> 0]
Num(v) == [kind |-> "num", val |-> v]
Num4(v) == [kind |-> "num4", val |-> v]
PyInt(v) == [kind |-> "int", val |-> v]
Fix18(p) == [kind |-> "fix18", val |-> p]

Range(s) == {s[i] : i \in 1..Len(s)}

-----------------------------------------------------------------------------
(* Cyclical encoding, app.py:52-56.  The tables hold the doubles that      *)
(* sin(2*pi*k/24), k = 0..47, and sin(2*pi*k/365), k = 1..730, evaluate to *)
(* (pi the double 3.141592653589793), likewise cos.                        *)

SinHourTable ==
  <<
     <<0, 0>>, <<258819045, 102520739>>, <<499999999, 999999944>>, <<707106781, 186547462>>,
     <<866025403, 784438597>>, <<965925826, 289068312>>, <<1000000000, 0>>, <<965925826, 289068312>>,
     <<866025403, 784438708>>, <<707106781, 186547573>>, <<499999999, 999999944>>, <<258819045, 102521017>>,
     <<0, 122>>, <<-258819046, 897479205>>, <<-500000000, 278>>, <<-707106782, 813452871>>,
     <<-866025404, 215561625>>, <<-965925827, 710931688>>, <<-1000000000, 0>>, <<-965925827, 710931577>>,
     <<-866025404, 215561403>>, <<-707106782, 813452316>>, <<-500000001, 999999556>>, <<-258819046, 897478428>>,
     <<-1, 999999755>>, <<258819045, 102521073>>, <<500000000, 0>>, <<707106781, 186547351>>,
     <<866025403, 784438375>>, <<965925826, 289068312>>, <<1000000000, 0>>, <<965925826, 289068423>>,
     <<866025403, 784439152>>, <<707106781, 186547129>>, <<499999999, 999999778>>, <<258819045, 102520795>>,
     <<0, 367>>, <<-258819046, 897479871>>, <<-500000000, 833>>, <<-707106782, 813453426>>,
     <<-866025404, 215561292>>, <<-965925827, 710932243>>, <<-1000000000, 0>>, <<-965925827, 710931577>>,
     <<-866025404, 215560848>>, <<-707106782, 813452760>>, <<-500000001, 999998557>>, <<-258819046, 897479038>>
  >>

CosHourTable ==
  <<
     <<1000000000, 0>>, <<965925826, 289068312>>, <<866025403, 784438708>>, <<707106781, 186547573>>,
     <<500000000, 111>>, <<258819045, 102520739>>, <<0, 61>>, <<-258819046, 897479372>>,
     <<-500000000, 222>>, <<-707106782, 813452538>>, <<-866025404, 215561292>>, <<-965925827, 710931799>>,
     <<-1000000000, 0>>, <<-965925827, 710931688>>, <<-866025404, 215561181>>, <<-707106782, 813452094>>,
     <<-500000001, 999999556>>, <<-258819046, 897479372>>, <<-1, 999999816>>, <<258819045, 102520295>>,
     <<500000000, 111>>, <<707106781, 186547351>>, <<866025403, 784438375>>, <<965925826, 289068090>>,
     <<1000000000, 0>>, <<965925826, 289068201>>, <<866025403, 784438597>>, <<707106781, 186547684>>,
     <<500000000, 555>>, <<258819045, 102520739>>, <<0, 1194>>, <<-258819046, 897479816>>,
     <<-500000000, 777>>, <<-707106782, 813452094>>, <<-866025404, 215561181>>, <<-965925827, 710931688>>,
     <<-1000000000, 0>>, <<-965925827, 710931577>>, <<-866025404, 215560848>>, <<-707106782, 813451539>>,
     <<-500000000, 167>>, <<-258819046, 897477429>>, <<-1, 999999571>>, <<258819045, 102520073>>,
     <<499999999, 999999112>>, <<707106781, 186547795>>, <<866025403, 784437819>>, <<965925826, 289068201>>
  >>

SinDoyTable ==
  <<
     <<17213356, 155834685>>, <<34421611, 622745742>>, <<51619667, 223253764>>, <<68802426, 802319863>>,
     <<85964798, 737446474>>, <<103101697, 447434845>>, <<120208044, 899352703>>, <<137278772, 113264780>>,
     <<154308820, 664281171>>, <<171293144, 181477591>>, <<188226709, 843244189>>, <<205104499, 868619200>>,
     <<221921513, 4165488>>, <<238672766, 5950110>>, <<255353295, 116186985>>, <<271958157, 534105516>>,
     <<288482432, 880608985>>, <<304921224, 656289069>>, <<321269661, 692364428>>, <<337522899, 594113301>>,
     <<353676122, 176371621>>, <<369724542, 890673080>>, <<385663406, 243607065>>, <<401487989, 205973006>>,
     <<417193602, 612316805>>, <<432775592, 550431187>>, <<448229341, 740410625>>, <<463550270, 902850892>>,
     <<478733840, 115788456>>, <<493775550, 159977206>>, <<508670943, 852104429>>, <<523415607, 365550262>>,
     <<538005171, 538299631>>, <<552435313, 167619624>>, <<566701756, 291117631>>, <<580800273, 453800919>>,
     <<594726686, 960763362>>, <<608476870, 115126078>>, <<622046748, 440867492>>, <<635432300, 890177437>>,
     <<648629561, 34981372>>, <<661634618, 242278316>>, <<674443618, 832945457>>, <<687052767, 223666927>>,
     <<699458327, 51647122>>, <<711656622, 281774620>>, <<723644038, 295912395>>, <<735417022, 963985478>>,
     <<746972087, 696555209>>, <<758305808, 478562438>>, <<769414826, 883937808>>, <<780295851, 70775481>>,
     <<790945656, 756777193>>, <<801361088, 174676550>>, <<811539059, 7361008>>, <<821476553, 302414203>>,
     <<831170626, 365807852>>, <<840618405, 634478205>>, <<849817091, 527527824>>, <<858763958, 275802874>>,
     <<867456354, 729596812>>, <<875891705, 144242860>>, <<884067509, 943363583>>, <<891981346, 459548519>>,
     <<899630869, 652243259>>, <<907013812, 802635933>>, <<914127988, 185333695>>, <<920971287, 716634612>>,
     <<927541683, 579196641>>, <<933837228, 822925192>>, <<939856057, 941895418>>, <<945596387, 427142582>>,
     <<951056516, 295153531>>, <<956234826, 591905618>>, <<961129783, 872300747>>, <<965739937, 654854885>>,
     <<970063921, 851507138>>, <<974100455, 172420499>>, <<977848341, 505656804>>, <<981306470, 271609332>>,
     <<984473816, 752092223>>, <<987349442, 393986365>>, <<989932495, 87353037>>, <<992222209, 417932266>>,
     <<994217906, 893951953>>, <<995918996, 147179048>>, <<997324973, 108155488>>, <<998435421, 155564273>>,
     <<999250011, 239683489>>, <<999768501, 979890867>>, <<999990739, 736190126>>, <<999916658, 654737889>>,
     <<999546280, 687357291>>, <<998879715, 585033634>>, <<997917160, 865392172>>, <<996658901, 754170157>>,
     <<995105311, 100697554>>, <<993256849, 267414310>>, <<991114063, 993454697>>, <<988677590, 232340475>>,
     <<985948149, 963830400>>, <<982926551, 979982244>>, <<979613691, 645490059>>, <<976010550, 632368301>>,
     <<972118196, 629061293>>, <<967937783, 24064191>>, <<963470548, 564148821>>, <<958717816, 987296412>>,
     <<953680996, 630445699>>, <<948361580, 12171523>>, <<942761143, 390420719>>, <<936881346, 295431516>>,
     <<930723931, 37979457>>, <<924290722, 193093384>>, <<917583626, 59393698>>, <<910604630, 94216327>>,
     <<903355802, 324684487>>, <<895839290, 734908977>>, <<888057322, 629493218>>, <<880012203, 973535745>>,
     <<871706318, 709321915>>, <<863142128, 49911417>>, <<854322169, 749826998>>, <<845249057, 353063327>>,
     <<835925479, 418637152>>, <<826354198, 723909583>>, <<816538051, 445916069>>, <<806479946, 320944774>>,
     <<796182863, 782615824>>, <<785649855, 78714654>>, <<774884041, 367040699>>, <<763888612, 790542765>>,
     <<752666827, 532008420>>, <<741222010, 848595958>>, <<729557554, 86487481>>, <<717676913, 675961980>>,
     <<705583610, 107177961>>, <<693281226, 886977686>>, <<680773409, 477016145>>, <<668063864, 213533476>>,
     <<655156357, 209085272>>, <<642054713, 236563712>>, <<628762814, 595834385>>, <<615284599, 963327627>>,
     <<601624063, 224922567>>, <<587785252, 292473248>>, <<573772267, 904324562>>, <<559589262, 410176480>>,
     <<545240438, 540650962>>, <<530730048, 161933365>>, <<516062391, 15852828>>, <<501241813, 445775786>>,
     <<486272707, 108690028>>, <<471159507, 673863776>>, <<455906693, 508458805>>, <<440518784, 350495018>>,
     <<425000339, 969554164>>, <<409355958, 815621312>>, <<393590276, 656466731>>, <<377707965, 203964879>>,
     <<361713730, 729767646>>, <<345612312, 670733501>>, <<329408482, 224530397>>, <<313107040, 935826919>>,
     <<296712819, 273490747>>, <<280230675, 199215906>>, <<263665492, 728007045>>, <<247022180, 480935521>>,
     <<230305670, 230612214>>, <<213520915, 439796122>>, <<196672889, 793576472>>, <<179766585, 725562394>>,
     <<162807012, 938517154>>, <<145799196, 919875113>>, <<128748177, 452581325>>, <<111659007, 121695117>>,
     <<94536749, 817199117>>, <<77386479, 233463007>>, <<60213277, 365793023>>, <<43022233, 4530591>>,
     <<25818440, 227133081>>, <<8606996, 888688698>>, <<-8606997, 111311991>>, <<-25818441, 772867609>>,
     <<-43022234, 995469659>>, <<-60213278, 634207226>>, <<-77386480, 766536785>>, <<-94536750, 182800675>>,
     <<-111659008, 878305563>>, <<-128748178, 547419341>>, <<-145799197, 80125581>>, <<-162807013, 61483540>>,
     <<-179766586, 274437855>>, <<-196672890, 206423778>>, <<-213520916, 560204100>>, <<-230305671, 769388036>>,
     <<-247022181, 519064728>>, <<-263665493, 271992789>>, <<-280230676, 800783927>>, <<-296712820, 726509920>>,
     <<-313107041, 64173303>>, <<-329408483, 775469825>>, <<-345612313, 329266721>>, <<-361713731, 270232576>>,
     <<-377707966, 796035343>>, <<-393590277, 343533547>>, <<-409355959, 184378910>>, <<-425000340, 30446058>>,
     <<-440518785, 649504815>>, <<-455906694, 491540973>>, <<-471159508, 326136058>>, <<-486272708, 891309806>>,
     <<-501241814, 554224436>>, <<-516062392, 984147394>>, <<-530730049, 838066857>>, <<-545240439, 459349260>>,
     <<-559589263, 589823742>>, <<-573772268, 95675660>>, <<-587785253, 707526641>>, <<-601624064, 775077322>>,
     <<-615284600, 36672261>>, <<-628762815, 404165504>>, <<-642054714, 763436399>>, <<-655156358, 790914950>>,
     <<-668063865, 786466746>>, <<-680773410, 522983966>>, <<-693281227, 113022869>>, <<-705583611, 892822594>>,
     <<-717676914, 324038464>>, <<-729557555, 913512408>>, <<-741222011, 151404264>>, <<-752666828, 467991691>>,
     <<-763888613, 209457124>>, <<-774884042, 632959412>>, <<-785649856, 921285568>>, <<-796182864, 217384620>>,
     <<-806479947, 679055337>>, <<-816538052, 554084264>>, <<-826354199, 276090639>>, <<-835925480, 581363514>>,
     <<-845249058, 646936673>>, <<-854322170, 250173113>>, <<-863142129, 950088472>>, <<-871706319, 290678308>>,
     <<-880012204, 26464366>>, <<-888057323, 370507004>>, <<-895839291, 265091134>>, <<-903355803, 675315846>>,
     <<-910604631, 905783784>>, <<-917583627, 940606635>>, <<-924290723, 806906616>>, <<-930723932, 962020654>>,
     <<-936881347, 704568484>>, <<-942761144, 609579392>>, <<-948361581, 987828366>>, <<-953680997, 369554523>>,
     <<-958717817, 12703588>>, <<-963470549, 435851401>>, <<-967937784, 975935920>>, <<-972118197, 370938818>>,
     <<-976010551, 367631810>>, <<-979613692, 354509941>>, <<-982926552, 20017756>>, <<-985948150, 36169711>>,
     <<-988677591, 767659636>>, <<-991114064, 6545414>>, <<-993256850, 732585690>>, <<-995105312, 899302557>>,
     <<-996658902, 245829954>>, <<-997917161, 134607828>>, <<-998879716, 414966477>>, <<-999546281, 312642709>>,
     <<-999916659, 345262111>>, <<-999990740, 263809874>>, <<-999768502, 20109133>>, <<-999250012, 760316511>>,
     <<-998435422, 844435727>>, <<-997324974, 891844512>>, <<-995918997, 852820841>>, <<-994217907, 106048047>>,
     <<-992222210, 582067623>>, <<-989932496, 912646963>>, <<-987349443, 606013635>>, <<-984473817, 247907666>>,
     <<-981306471, 728390668>>, <<-977848342, 494343196>>, <<-974100456, 827579390>>, <<-970063922, 148492973>>,
     <<-965739938, 345145004>>, <<-961129784, 127699253>>, <<-956234827, 408094160>>, <<-951056517, 704846358>>,
     <<-945596388, 572857196>>, <<-939856058, 58104694>>, <<-933837229, 177074808>>, <<-927541684, 420803470>>,
     <<-920971288, 283365388>>, <<-914127989, 814666305>>, <<-907013813, 197363845>>, <<-899630870, 347756630>>,
     <<-891981347, 540451259>>, <<-884067510, 56636306>>, <<-875891706, 855756696>>, <<-867456355, 270402854>>,
     <<-858763959, 724196904>>, <<-849817092, 472472287>>, <<-840618406, 365521684>>, <<-831170627, 634192148>>,
     <<-821476554, 697585464>>, <<-811539060, 992638881>>, <<-801361089, 825323006>>, <<-790945657, 243222585>>,
     <<-780295852, 929223964>>, <<-769414827, 116061859>>, <<-758305809, 521437451>>, <<-746972088, 303444902>>,
     <<-735417023, 36014189>>, <<-723644039, 704087716>>, <<-711656623, 718224936>>, <<-699458328, 948352878>>,
     <<-687052768, 776332518>>, <<-674443619, 167054321>>, <<-661634619, 757721018>>, <<-648629562, 965018184>>,
     <<-635432301, 109822452>>, <<-622046749, 559131953>>, <<-608476871, 884873589>>, <<-594726687, 39235972>>,
     <<-580800274, 546198748>>, <<-566701757, 708881592>>, <<-552435314, 832379710>>, <<-538005172, 461700813>>,
     <<-523415608, 634449738>>, <<-508670944, 147895793>>, <<-493775551, 840022628>>, <<-478733841, 884211711>>,
     <<-463550271, 97148775>>, <<-448229342, 259589375>>, <<-432775593, 449568313>>, <<-417193603, 387683028>>,
     <<-401487990, 794026272>>, <<-385663407, 756392546>>, <<-369724543, 109326809>>, <<-353676123, 823627935>>,
     <<-337522900, 405886532>>, <<-321269662, 307634851>>, <<-304921225, 343710598>>, <<-288482433, 119390182>>,
     <<-271958158, 465894762>>, <<-255353296, 883811905>>, <<-238672767, 994050029>>, <<-221921514, 995833263>>,
     <<-205104500, 131380744>>, <<-188226710, 156756089>>, <<-171293145, 818522187>>, <<-154308821, 335718995>>,
     <<-137278773, 886734832>>, <<-120208045, 100647255>>, <<-103101698, 552564558>>, <<-85964799, 262553304>>,
     <<-68802427, 197679360>>, <<-51619668, 776745820>>, <<-34421612, 377254196>>, <<-17213357, 844164719>>,
     <<0, 643>>, <<17213356, 155833904>>, <<34421611, 622746207>>, <<51619667, 223252799>>,
     <<68802426, 802320155>>, <<85964798, 737446210>>, <<103101697, 447434956>>, <<120208044, 899352259>>,
     <<137278772, 113264697>>, <<154308820, 664281421>>, <<171293144, 181477314>>, <<188226709, 843244300>>,
     <<205104499, 868618784>>, <<221921513, 4165405>>, <<238672766, 5949499>>, <<255353295, 116186763>>,
     <<271958157, 534104739>>, <<288482432, 880608541>>, <<304921224, 656288070>>, <<321269661, 692363873>>,
     <<337522899, 594113857>>, <<353676122, 176371621>>, <<369724542, 890673524>>, <<385663406, 243606954>>,
     <<401487989, 205973284>>, <<417193602, 612316528>>, <<432775592, 550431243>>, <<448229341, 740410181>>,
     <<463550270, 902850781>>, <<478733840, 115787845>>, <<493775550, 159976984>>, <<508670943, 852104540>>,
     <<523415607, 365549818>>, <<538005171, 538299520>>, <<552435313, 167619069>>, <<566701756, 291117298>>,
     <<580800273, 453800142>>, <<594726686, 960763584>>, <<608476870, 115125301>>, <<622046748, 440867603>>,
     <<635432300, 890176438>>, <<648629561, 34981483>>, <<661634618, 242278649>>, <<674443618, 832945346>>,
     <<687052767, 223667149>>, <<699458327, 51646789>>, <<711656622, 281774620>>, <<723644038, 295911951>>,
     <<735417022, 963985478>>, <<746972087, 696554765>>, <<758305808, 478562215>>, <<769414826, 883937808>>,
     <<780295851, 70775148>>, <<790945656, 756777637>>, <<801361088, 174676106>>, <<811539059, 7361341>>,
     <<821476553, 302413759>>, <<831170626, 365808074>>, <<840618405, 634477539>>, <<849817091, 527527935>>,
     <<858763958, 275802763>>, <<867456354, 729596812>>, <<875891705, 144243082>>, <<884067509, 943363472>>,
     <<891981346, 459548519>>, <<899630869, 652243148>>, <<907013812, 802635933>>, <<914127988, 185333584>>,
     <<920971287, 716634501>>, <<927541683, 579196308>>, <<933837228, 822924970>>, <<939856057, 941895084>>,
     <<945596387, 427142360>>, <<951056516, 295153753>>, <<956234826, 591905396>>, <<961129783, 872300858>>,
     <<965739937, 654854885>>, <<970063921, 851507138>>, <<974100455, 172420499>>, <<977848341, 505656804>>,
     <<981306470, 271609221>>, <<984473816, 752092223>>, <<987349442, 393986254>>, <<989932495, 87353037>>,
     <<992222209, 417932266>>, <<994217906, 893951842>>, <<995918996, 147179048>>, <<997324973, 108155488>>,
     <<998435421, 155564273>>, <<999250011, 239683489>>, <<999768501, 979890867>>, <<999990739, 736190126>>,
     <<999916658, 654737889>>, <<999546280, 687357402>>, <<998879715, 585033634>>, <<997917160, 865392172>>,
     <<996658901, 754170157>>, <<995105311, 100697554>>, <<993256849, 267414310>>, <<991114063, 993454697>>,
     <<988677590, 232340475>>, <<985948149, 963830289>>, <<982926551, 979982466>>, <<979613691, 645490059>>,
     <<976010550, 632368523>>, <<972118196, 629061293>>, <<967937783, 24064302>>, <<963470548, 564149043>>,
     <<958717816, 987296301>>, <<953680996, 630445588>>, <<948361580, 12171745>>, <<942761143, 390421053>>,
     <<936881346, 295431405>>, <<930723931, 37979568>>, <<924290722, 193093606>>, <<917583626, 59394364>>,
     <<910604630, 94216327>>, <<903355802, 324684043>>, <<895839290, 734909421>>, <<888057322, 629493218>>,
     <<880012203, 973535856>>, <<871706318, 709321581>>, <<863142128, 49911306>>, <<854322169, 749827220>>,
     <<845249057, 353063660>>, <<835925479, 418636708>>, <<826354198, 723909694>>, <<816538051, 445916513>>,
     <<806479946, 320944441>>, <<796182863, 782615713>>, <<785649855, 78714765>>, <<774884041, 367041365>>,
     <<763888612, 790542654>>, <<752666827, 532008642>>, <<741222010, 848596402>>, <<729557554, 86488591>>,
     <<717676913, 675962203>>, <<705583610, 107177184>>, <<693281226, 886977242>>, <<680773409, 477016367>>,
     <<668063864, 213533920>>, <<655156357, 209084717>>, <<642054713, 236563601>>, <<628762814, 595834940>>,
     <<615284599, 963328516>>, <<601624063, 224922345>>, <<587785252, 292473359>>, <<573772267, 904325450>>,
     <<559589262, 410176369>>, <<545240438, 540651184>>, <<530730048, 161933921>>, <<516062391, 15853827>>,
     <<501241813, 445775564>>, <<486272707, 108690583>>, <<471159507, 673863220>>, <<455906693, 508460248>>,
     <<440518784, 350495241>>, <<425000339, 969554775>>, <<409355958, 815621146>>, <<393590276, 656466953>>,
     <<377707965, 203965546>>, <<361713730, 729767036>>, <<345612312, 670733335>>, <<329408482, 224530674>>,
     <<313107040, 935827585>>, <<296712819, 273490136>>, <<280230675, 199216517>>, <<263665492, 728008155>>,
     <<247022180, 480937048>>, <<230305670, 230612464>>, <<213520915, 439795067>>, <<196672889, 793577582>>,
     <<179766585, 725562200>>, <<162807012, 938517376>>, <<145799196, 919874030>>, <<128748177, 452580687>>,
     <<111659007, 121694923>>, <<94536749, 817200255>>, <<77386479, 233462813>>, <<60213277, 365793266>>,
     <<43022233, 4531278>>, <<25818440, 227132439>>, <<8606996, 888688500>>, <<-8606997, 111312236>>,
     <<-25818441, 772868296>>, <<-43022234, 995469457>>, <<-60213278, 634207469>>, <<-77386480, 766537923>>,
     <<-94536750, 182802257>>, <<-111659008, 878305813>>, <<-128748178, 547418286>>, <<-145799197, 80124943>>,
     <<-162807013, 61483346>>, <<-179766586, 274438521>>, <<-196672890, 206423139>>, <<-213520916, 560203906>>,
     <<-230305671, 769388258>>, <<-247022181, 519065394>>, <<-263665493, 271992567>>, <<-280230676, 800784149>>,
     <<-296712820, 726510586>>, <<-313107041, 64173136>>, <<-329408483, 775470047>>, <<-345612313, 329267387>>,
     <<-361713731, 270233630>>, <<-377707966, 796035121>>, <<-393590277, 343533769>>, <<-409355959, 184377910>>,
     <<-425000340, 30447501>>, <<-440518785, 649505426>>, <<-455906694, 491542028>>, <<-471159508, 326135836>>,
     <<-486272708, 891310028>>, <<-501241814, 554225103>>, <<-516062392, 984146839>>, <<-530730049, 838066746>>,
     <<-545240439, 459349482>>, <<-559589263, 589824297>>, <<-573772268, 95675105>>, <<-587785253, 707527196>>,
     <<-601624064, 775078210>>, <<-615284600, 36673483>>, <<-628762815, 404165726>>, <<-642054714, 763435622>>,
     <<-655156358, 790915839>>, <<-668063865, 786466524>>, <<-680773410, 522984188>>, <<-693281227, 113022092>>,
     <<-705583611, 892822150>>, <<-717676914, 324038353>>, <<-729557555, 913513185>>, <<-741222011, 151404153>>,
     <<-752666828, 467991802>>, <<-763888613, 209457901>>, <<-774884042, 632959079>>, <<-785649856, 921285679>>,
     <<-796182864, 217384731>>, <<-806479947, 679056003>>, <<-816538052, 554083931>>, <<-826354199, 276090750>>,
     <<-835925480, 581363625>>, <<-845249058, 646937673>>, <<-854322170, 250173224>>, <<-863142129, 950089027>>,
     <<-871706319, 290677974>>, <<-880012204, 26464477>>, <<-888057323, 370507115>>, <<-895839291, 265090912>>,
     <<-903355803, 675315513>>, <<-910604631, 905783895>>, <<-917583627, 940606635>>, <<-924290723, 806906727>>,
     <<-930723932, 962020765>>, <<-936881347, 704568817>>, <<-942761144, 609579170>>, <<-948361581, 987828477>>,
     <<-953680997, 369554634>>, <<-958717817, 12703921>>, <<-963470549, 435851179>>, <<-967937784, 975935920>>,
     <<-972118197, 370938929>>, <<-976010551, 367632032>>, <<-979613692, 354510052>>, <<-982926552, 20017978>>,
     <<-985948150, 36169600>>, <<-988677591, 767659636>>, <<-991114064, 6545414>>, <<-993256850, 732585690>>,
     <<-995105312, 899302446>>, <<-996658902, 245829954>>, <<-997917161, 134607939>>, <<-998879716, 414966366>>,
     <<-999546281, 312642709>>, <<-999916659, 345262111>>, <<-999990740, 263809874>>, <<-999768502, 20109133>>,
     <<-999250012, 760316511>>, <<-998435422, 844435616>>, <<-997324974, 891844512>>, <<-995918997, 852820841>>,
     <<-994217907, 106048158>>, <<-992222210, 582067512>>, <<-989932496, 912646852>>, <<-987349443, 606013413>>,
     <<-984473817, 247907777>>, <<-981306471, 728390557>>, <<-977848342, 494342974>>, <<-974100456, 827579168>>,
     <<-970063922, 148492862>>, <<-965739938, 345144893>>, <<-961129784, 127698920>>, <<-956234827, 408093827>>,
     <<-951056517, 704846247>>, <<-945596388, 572857085>>, <<-939856058, 58104027>>, <<-933837229, 177074031>>,
     <<-927541684, 420803692>>, <<-920971288, 283364944>>, <<-914127989, 814665417>>, <<-907013813, 197364512>>,
     <<-899630870, 347756852>>, <<-891981347, 540451481>>, <<-884067510, 56635307>>, <<-875891706, 855757362>>,
     <<-867456355, 270403188>>, <<-858763959, 724196792>>, <<-849817092, 472471732>>, <<-840618406, 365522017>>,
     <<-831170627, 634191926>>, <<-821476554, 697585353>>, <<-811539060, 992639325>>, <<-801361089, 825323450>>,
     <<-790945657, 243222474>>, <<-780295852, 929223853>>, <<-769414827, 116062303>>, <<-758305809, 521437229>>,
     <<-746972088, 303444125>>, <<-735417023, 36013522>>, <<-723644039, 704087494>>, <<-711656623, 718224825>>,
     <<-699458328, 948351990>>, <<-687052768, 776332962>>, <<-674443619, 167054099>>, <<-661634619, 757720907>>,
     <<-648629562, 965017295>>, <<-635432301, 109822230>>, <<-622046749, 559131842>>, <<-608476871, 884872700>>,
     <<-594726687, 39235084>>, <<-580800274, 546198526>>, <<-566701757, 708881370>>, <<-552435314, 832378822>>,
     <<-538005172, 461701368>>, <<-523415608, 634450293>>, <<-508670944, 147894128>>, <<-493775551, 840020851>>,
     <<-478733841, 884212266>>, <<-463550271, 97149386>>, <<-448229342, 259589153>>, <<-432775593, 449566481>>,
     <<-417193603, 387683583>>, <<-401487990, 794026883>>, <<-385663407, 756392324>>, <<-369724543, 109327419>>,
     <<-353676123, 823628490>>, <<-337522900, 405886310>>, <<-321269662, 307634629>>, <<-304921225, 343711208>>,
     <<-288482433, 119390792>>, <<-271958158, 465893707>>, <<-255353296, 883813404>>, <<-238672767, 994049779>>,
     <<-221921514, 995833873>>, <<-205104500, 131379634>>, <<-188226710, 156755839>>, <<-171293145, 818521965>>,
     <<-154308821, 335717858>>, <<-137278773, 886733694>>, <<-120208045, 100647005>>, <<-103101698, 552564322>>,
     <<-85964799, 262552166>>, <<-68802427, 197679998>>, <<-51619668, 776745577>>, <<-34421612, 377253058>>,
     <<-17213357, 844163584>>, <<0, 1286>>
  >>

CosDoyTable ==
  <<
     <<999851839, 209116244>>, <<999407400, 739704799>>, <<998666816, 288475978>>, <<997630305, 306585696>>,
     <<996298174, 934607816>>, <<994670819, 911521065>>, <<992748722, 457740151>>, <<990532452, 132222851>>,
     <<988022665, 663697564>>, <<985220106, 756060643>>, <<982125605, 868000573>>, <<978740079, 966915255>>,
     <<975064532, 257194805>>, <<971100051, 882950455>>, <<966847813, 605277495>>, <<962309077, 454148620>>,
     <<957485188, 355039263>>, <<952377575, 730397385>>, <<946987753, 76075300>>, <<941317317, 512847085>>,
     <<935367949, 313148261>>, <<929141411, 403174300>>, <<922639548, 840487600>>, <<915864288, 267287163>>,
     <<908817637, 339502937>>, <<901501684, 131884029>>, <<893918596, 519256980>>, <<886070621, 534137959>>,
     <<877960084, 700888155>>, <<869589389, 346611008>>, <<860961015, 888994319>>, <<852077521, 101309299>>,
     <<842941537, 354782833>>, <<833555771, 838569881>>, <<823923005, 757554172>>, <<814046093, 508217772>>,
     <<803927961, 832821336>>, <<793571608, 952147400>>, <<782980103, 677062833>>, <<772156584, 499164245>>,
     <<761104258, 660774691>>, <<749826401, 204568560>>, <<738326354, 3106533>>, <<726607524, 768565605>>,
     <<714673386, 42960934>>, <<702527474, 169157062>>, <<690173388, 242971919>>, <<677614789, 46688926>>,
     <<664855397, 964286499>>, <<651898995, 878712584>>, <<638749422, 51527183>>, <<625410572, 985246271>>,
     <<611886401, 268724289>>, <<598180914, 405916364>>, <<584298173, 628368445>>, <<570242292, 691787056>>,
     <<556017436, 657044617>>, <<541627820, 655981362>>, <<527077708, 642372245>>, <<512371412, 128423742>>,
     <<497513288, 907180662>>, <<482507741, 761218467>>, <<467359217, 158002216>>, <<452072203, 932304351>>,
     <<436651231, 956064034>>, <<421100870, 796089599>>, <<405425728, 359997350>>, <<389630449, 530787959>>,
     <<373719714, 790469060>>, <<357698238, 833125459>>, <<341570769, 167855615>>, <<325342084, 711980117>>,
     <<309016994, 374947451>>, <<292600335, 633348363>>, <<276096973, 97468834>>, <<259511797, 69799877>>,
     <<242849722, 95935611>>, <<226115685, 508288283>>, <<209314645, 963048468>>, <<192451581, 970829982>>,
     <<175531490, 421428210>>, <<158559385, 103134776>>, <<141540295, 217043005>>, <<124479263, 886789149>>,
     <<107381346, 664163088>>, <<90251610, 31041166>>, <<73095129, 898077774>>, <<55916990, 100603484>>,
     <<38722280, 892174457>>, <<21516097, 436222254>>, <<4303538, 296244289>>, <<-12910297, 924991180>>,
     <<-30120305, 153091886>>, <<-47321389, 677568149>>, <<-64508450, 550683768>>, <<-81676396, 669577589>>,
     <<-98820139, 267128568>>, <<-115934600, 404499588>>, <<-133014707, 465804108>>, <<-150055399, 655347409>>,
     <<-167051626, 497880756>>, <<-183998352, 342319946>>, <<-200890556, 869364943>>, <<-217723231, 603468231>>,
     <<-234491390, 429590147>>, <<-251190064, 115180652>>, <<-267814306, 837825807>>, <<-284359188, 718996600>>,
     <<-300819808, 364332653>>, <<-317191289, 410893887>>, <<-333468779, 81813174>>, <<-349647456, 748771577>>,
     <<-365722524, 502731030>>, <<-381689221, 733341198>>, <<-397542815, 717444055>>, <<-413278608, 217095794>>,
     <<-428891938, 87516521>>, <<-444378179, 895386780>>, <<-459732740, 547896033>>, <<-474951073, 932950049>>,
     <<-490028667, 570940766>>, <<-504961055, 278479581>>, <<-519743813, 844484539>>, <<-534372559, 719021373>>,
     <<-548842959, 715281037>>, <<-563150725, 725081365>>, <<-577291617, 448272773>>, <<-591261445, 136421877>>,
     <<-605056070, 351151162>>, <<-618671404, 737496861>>, <<-632103412, 812651304>>, <<-645348114, 770449898>>,
     <<-658401585, 301951230>>, <<-671259958, 432468682>>, <<-683919422, 375389387>>, <<-696376226, 403127822>>,
     <<-708626679, 735540425>>, <<-720667150, 446139092>>, <<-732494072, 386421066>>, <<-744103940, 128639302>>,
     <<-755493315, 927319722>>, <<-766658820, 699841000>>, <<-777597147, 26372971>>, <<-788305056, 169474542>>,
     <<-798779373, 113635087>>, <<-809016995, 625052660>>, <<-819014887, 331919911>>, <<-828770088, 825496156>>,
     <<-838279706, 782225604>>, <<-847540923, 107168883>>, <<-856550996, 98996413>>, <<-865307255, 636794009>>,
     <<-873807104, 388919173>>, <<-882048025, 44146340>>, <<-890027577, 565323330>>, <<-897743394, 465766287>>,
     <<-905193190, 108602591>>, <<-912374758, 29272687>>, <<-919285970, 281389570>>, <<-925924778, 806150198>>,
     <<-932289214, 825486702>>, <<-938377392, 259135903>>, <<-944187509, 165800671>>, <<-949717843, 208568434>>,
     <<-954966755, 144744938>>, <<-959932690, 340255347>>, <<-964614176, 308756475>>, <<-969009826, 275593807>>,
     <<-973118338, 766738090>>, <<-976938493, 222818300>>, <<-980469161, 638367992>>, <<-983709294, 226390284>>,
     <<-986657933, 108342959>>, <<-989314204, 29633710>>, <<-991677320, 100710023>>, <<-993746581, 563821971>>,
     <<-995521373, 585524753>>, <<-997001170, 74984915>>, <<-998185535, 528141351>>, <<-999074116, 897770013>>,
     <<-999666649, 489488765>>, <<-999962960, 883734463>>, <<-999962960, 883734463>>, <<-999666649, 489488765>>,
     <<-999074116, 897770013>>, <<-998185535, 528141351>>, <<-997001170, 74984915>>, <<-995521373, 585524753>>,
     <<-993746581, 563821860>>, <<-991677320, 100710023>>, <<-989314204, 29633599>>, <<-986657933, 108342848>>,
     <<-983709294, 226390173>>, <<-980469161, 638367881>>, <<-976938493, 222818300>>, <<-973118338, 766737979>>,
     <<-969009826, 275593696>>, <<-964614176, 308756475>>, <<-959932690, 340255458>>, <<-954966755, 144744716>>,
     <<-949717843, 208568323>>, <<-944187509, 165800560>>, <<-938377392, 259135792>>, <<-932289214, 825486591>>,
     <<-925924778, 806150087>>, <<-919285970, 281389459>>, <<-912374758, 29272576>>, <<-905193190, 108602479>>,
     <<-897743394, 465766398>>, <<-890027577, 565323441>>, <<-882048025, 44146451>>, <<-873807104, 388919285>>,
     <<-865307255, 636793898>>, <<-856550996, 98996302>>, <<-847540923, 107168772>>, <<-838279706, 782225493>>,
     <<-828770088, 825496045>>, <<-819014887, 331919800>>, <<-809016995, 625052771>>, <<-798779373, 113635198>>,
     <<-788305056, 169474653>>, <<-777597147, 26373193>>, <<-766658820, 699840778>>, <<-755493315, 927319611>>,
     <<-744103940, 128639191>>, <<-732494072, 386420955>>, <<-720667150, 446138536>>, <<-708626679, 735539981>>,
     <<-696376226, 403127378>>, <<-683919422, 375389498>>, <<-671259958, 432468460>>, <<-658401585, 301951119>>,
     <<-645348114, 770450009>>, <<-632103412, 812651193>>, <<-618671404, 737496750>>, <<-605056070, 351150607>>,
     <<-591261445, 136421655>>, <<-577291617, 448272218>>, <<-563150725, 725081143>>, <<-548842959, 715280149>>,
     <<-534372559, 719021484>>, <<-519743813, 844484317>>, <<-504961055, 278479803>>, <<-490028667, 570940599>>,
     <<-474951073, 932949827>>, <<-459732740, 547895423>>, <<-444378179, 895386614>>, <<-428891938, 87515911>>,
     <<-413278608, 217095572>>, <<-397542815, 717443389>>, <<-381689221, 733341420>>, <<-365722524, 502730808>>,
     <<-349647456, 748771744>>, <<-333468779, 81812952>>, <<-317191289, 410894054>>, <<-300819808, 364331987>>,
     <<-284359188, 718996377>>, <<-267814306, 837825141>>, <<-251190064, 115180430>>, <<-234491390, 429589481>>,
     <<-217723231, 603467759>>, <<-200890556, 869364721>>, <<-183998352, 342320141>>, <<-167051626, 497880506>>,
     <<-150055399, 655347381>>, <<-133014707, 465803636>>, <<-115934600, 404499338>>, <<-98820139, 267127888>>,
     <<-81676396, 669577118>>, <<-64508450, 550683754>>, <<-47321389, 677567677>>, <<-30120305, 153091640>>,
     <<-12910297, 924991157>>, <<4303538, 296243821>>, <<21516097, 436222233>>, <<38722280, 892173992>>,
     <<55916990, 100603019>>, <<73095129, 898077760>>, <<90251610, 31040694>>, <<107381346, 664163060>>,
     <<124479263, 886788691>>, <<141540295, 217043005>>, <<158559385, 103134748>>, <<175531490, 421427766>>,
     <<192451581, 970829955>>, <<209314645, 963048884>>, <<226115685, 508288033>>, <<242849722, 95935805>>,
     <<259511797, 69799433>>, <<276096973, 97468834>>, <<292600335, 633347919>>, <<309016994, 374947229>>,
     <<325342084, 711979507>>, <<341570769, 167856003>>, <<357698238, 833125459>>, <<373719714, 790469226>>,
     <<389630449, 530787737>>, <<405425728, 359997295>>, <<421100870, 796089155>>, <<436651231, 956063812>>,
     <<452072203, 932303740>>, <<467359217, 158002049>>, <<482507741, 761217634>>, <<497513288, 907180273>>,
     <<512371412, 128423520>>, <<527077708, 642372356>>, <<541627820, 655981140>>, <<556017436, 657044617>>,
     <<570242292, 691786723>>, <<584298173, 628368334>>, <<598180914, 405915920>>, <<611886401, 268724178>>,
     <<625410572, 985245716>>, <<638749422, 51526849>>, <<651898995, 878712473>>, <<664855397, 964286610>>,
     <<677614789, 46688704>>, <<690173388, 242972030>>, <<702527474, 169156618>>, <<714673386, 42960934>>,
     <<726607524, 768565050>>, <<738326354, 3106311>>, <<749826401, 204568005>>, <<761104258, 660774247>>,
     <<772156584, 499164134>>, <<782980103, 677062500>>, <<793571608, 952147178>>, <<803927961, 832820781>>,
     <<814046093, 508217550>>, <<823923005, 757553617>>, <<833555771, 838569548>>, <<842941537, 354783166>>,
     <<852077521, 101309299>>, <<860961015, 888994541>>, <<869589389, 346610897>>, <<877960084, 700888266>>,
     <<886070621, 534137848>>, <<893918596, 519256980>>, <<901501684, 131883807>>, <<908817637, 339502826>>,
     <<915864288, 267286830>>, <<922639548, 840487489>>, <<929141411, 403174300>>, <<935367949, 313148039>>,
     <<941317317, 512846974>>, <<946987753, 76075078>>, <<952377575, 730397274>>, <<957485188, 355038930>>,
     <<962309077, 454148731>>, <<966847813, 605277273>>, <<971100051, 882950455>>, <<975064532, 257194472>>,
     <<978740079, 966915255>>, <<982125605, 868000573>>, <<985220106, 756060643>>, <<988022665, 663697564>>,
     <<990532452, 132222740>>, <<992748722, 457740151>>, <<994670819, 911521065>>, <<996298174, 934607705>>,
     <<997630305, 306585696>>, <<998666816, 288475867>>, <<999407400, 739704799>>, <<999851839, 209116244>>,
     <<1000000000, 0>>, <<999851839, 209116244>>, <<999407400, 739704799>>, <<998666816, 288475978>>,
     <<997630305, 306585696>>, <<996298174, 934607816>>, <<994670819, 911521065>>, <<992748722, 457740262>>,
     <<990532452, 132222851>>, <<988022665, 663697564>>, <<985220106, 756060643>>, <<982125605, 868000573>>,
     <<978740079, 966915255>>, <<975064532, 257194805>>, <<971100051, 882950566>>, <<966847813, 605277606>>,
     <<962309077, 454148842>>, <<957485188, 355039374>>, <<952377575, 730397719>>, <<946987753, 76075522>>,
     <<941317317, 512846863>>, <<935367949, 313148261>>, <<929141411, 403174189>>, <<922639548, 840487600>>,
     <<915864288, 267287052>>, <<908817637, 339503048>>, <<901501684, 131884029>>, <<893918596, 519257203>>,
     <<886070621, 534138070>>, <<877960084, 700888488>>, <<869589389, 346611119>>, <<860961015, 888994319>>,
     <<852077521, 101309521>>, <<842941537, 354782944>>, <<833555771, 838570325>>, <<823923005, 757554394>>,
     <<814046093, 508218327>>, <<803927961, 832821114>>, <<793571608, 952148067>>, <<782980103, 677062722>>,
     <<772156584, 499165022>>, <<761104258, 660774580>>, <<749826401, 204568338>>, <<738326354, 3106644>>,
     <<726607524, 768565383>>, <<714673386, 42961267>>, <<702527474, 169156951>>, <<690173388, 242972363>>,
     <<677614789, 46689037>>, <<664855397, 964287054>>, <<651898995, 878712806>>, <<638749422, 51527183>>,
     <<625410572, 985246715>>, <<611886401, 268723845>>, <<598180914, 405916919>>, <<584298173, 628368001>>,
     <<570242292, 691787833>>, <<556017436, 657044284>>, <<541627820, 655982362>>, <<527077708, 642372023>>,
     <<512371412, 128423964>>, <<497513288, 907180662>>, <<482507741, 761218079>>, <<467359217, 158002438>>,
     <<452072203, 932304129>>, <<436651231, 956064256>>, <<421100870, 796089599>>, <<405425728, 359997739>>,
     <<389630449, 530788181>>, <<373719714, 790469670>>, <<357698238, 833125903>>, <<341570769, 167856447>>,
     <<325342084, 711980783>>, <<309016994, 374946841>>, <<292600335, 633349196>>, <<276096973, 97468446>>,
     <<259511797, 69799877>>, <<242849722, 95935416>>, <<226115685, 508288505>>, <<209314645, 963048496>>,
     <<192451581, 970830427>>, <<175531490, 421428238>>, <<158559385, 103135220>>, <<141540295, 217043477>>,
     <<124479263, 886789177>>, <<107381346, 664163546>>, <<90251610, 31041180>>, <<73095129, 898078245>>,
     <<55916990, 100603504>>, <<38722280, 892175366>>, <<21516097, 436222723>>, <<4303538, 296245199>>,
     <<-12910297, 924990760>>, <<-30120305, 153093017>>, <<-47321389, 677568170>>, <<-64508450, 550683351>>,
     <<-81676396, 669577617>>, <<-98820139, 267128374>>, <<-115934600, 404499824>>, <<-133014707, 465804135>>,
     <<-150055399, 655347881>>, <<-167051626, 497880117>>, <<-183998352, 342321501>>, <<-200890556, 869365193>>,
     <<-217723231, 603469119>>, <<-234491390, 429589953>>, <<-251190064, 115180874>>, <<-267814306, 837826473>>,
     <<-284359188, 718995989>>, <<-300819808, 364332487>>, <<-317191289, 410894553>>, <<-333468779, 81814229>>,
     <<-349647456, 748771355>>, <<-365722524, 502731252>>, <<-381689221, 733341864>>, <<-397542815, 717445498>>,
     <<-413278608, 217096016>>, <<-428891938, 87515522>>, <<-444378179, 895387835>>, <<-459732740, 547895867>>,
     <<-474951073, 932950271>>, <<-490028667, 570940211>>, <<-504961055, 278479470>>, <<-519743813, 844484761>>,
     <<-534372559, 719021928>>, <<-548842959, 715280593>>, <<-563150725, 725081587>>, <<-577291617, 448273328>>,
     <<-591261445, 136421433>>, <<-605056070, 351151051>>, <<-618671404, 737497083>>, <<-632103412, 812652192>>,
     <<-645348114, 770449676>>, <<-658401585, 301951452>>, <<-671259958, 432469237>>, <<-683919422, 375390608>>,
     <<-696376226, 403128044>>, <<-708626679, 735539648>>, <<-720667150, 446138647>>, <<-732494072, 386421288>>,
     <<-744103940, 128639746>>, <<-755493315, 927319278>>, <<-766658820, 699840889>>, <<-777597147, 26373415>>,
     <<-788305056, 169475208>>, <<-798779373, 113634976>>, <<-809016995, 625052771>>, <<-819014887, 331920577>>,
     <<-828770088, 825496045>>, <<-838279706, 782225826>>, <<-847540923, 107169216>>, <<-856550996, 98997079>>,
     <<-865307255, 636793898>>, <<-873807104, 388919507>>, <<-882048025, 44146007>>, <<-890027577, 565324107>>,
     <<-897743394, 465766398>>, <<-905193190, 108602924>>, <<-912374758, 29272576>>, <<-919285970, 281389681>>,
     <<-925924778, 806150420>>, <<-932289214, 825486480>>, <<-938377392, 259135792>>, <<-944187509, 165800782>>,
     <<-949717843, 208568656>>, <<-954966755, 144744716>>, <<-959932690, 340255569>>, <<-964614176, 308756808>>,
     <<-969009826, 275594140>>, <<-973118338, 766738090>>, <<-976938493, 222818078>>, <<-980469161, 638368214>>,
     <<-983709294, 226390173>>, <<-986657933, 108343070>>, <<-989314204, 29633599>>, <<-991677320, 100710023>>,
     <<-993746581, 563821971>>, <<-995521373, 585524864>>, <<-997001170, 74984915>>, <<-998185535, 528141351>>,
     <<-999074116, 897770013>>, <<-999666649, 489488765>>, <<-999962960, 883734463>>, <<-999962960, 883734463>>,
     <<-999666649, 489488765>>, <<-999074116, 897770013>>, <<-998185535, 528141351>>, <<-997001170, 74984804>>,
     <<-995521373, 585524642>>, <<-993746581, 563821860>>, <<-991677320, 100710134>>, <<-989314204, 29633710>>,
     <<-986657933, 108342959>>, <<-983709294, 226390061>>, <<-980469161, 638367992>>, <<-976938493, 222818300>>,
     <<-973118338, 766737979>>, <<-969009826, 275593585>>, <<-964614176, 308756586>>, <<-959932690, 340255347>>,
     <<-954966755, 144744494>>, <<-949717843, 208568323>>, <<-944187509, 165800560>>, <<-938377392, 259135569>>,
     <<-932289214, 825486147>>, <<-925924778, 806150198>>, <<-919285970, 281389348>>, <<-912374758, 29273021>>,
     <<-905193190, 108601813>>, <<-897743394, 465766064>>, <<-890027577, 565322885>>, <<-882048025, 44146451>>,
     <<-873807104, 388919173>>, <<-865307255, 636793454>>, <<-856550996, 98996635>>, <<-847540923, 107168883>>,
     <<-838279706, 782225382>>, <<-828770088, 825495711>>, <<-819014887, 331920133>>, <<-809016995, 625052327>>,
     <<-798779373, 113634531>>, <<-788305056, 169473653>>, <<-777597147, 26372971>>, <<-766658820, 699841555>>,
     <<-755493315, 927318834>>, <<-744103940, 128639302>>, <<-732494072, 386420733>>, <<-720667150, 446139314>>,
     <<-708626679, 735540425>>, <<-696376226, 403127489>>, <<-683919422, 375388721>>, <<-671259958, 432468682>>,
     <<-658401585, 301950897>>, <<-645348114, 770449121>>, <<-632103412, 812651637>>, <<-618671404, 737496528>>,
     <<-605056070, 351150496>>, <<-591261445, 136420767>>, <<-577291617, 448272773>>, <<-563150725, 725081032>>,
     <<-548842959, 715279927>>, <<-534372559, 719019819>>, <<-519743813, 844484095>>, <<-504961055, 278478804>>,
     <<-490028667, 570941154>>, <<-474951073, 932949605>>, <<-459732740, 547895201>>, <<-444378179, 895387169>>,
     <<-428891938, 87516466>>, <<-413278608, 217095350>>, <<-397542815, 717443167>>, <<-381689221, 733341198>>,
     <<-365722524, 502730586>>, <<-349647456, 748770689>>, <<-333468779, 81813507>>, <<-317191289, 410893832>>,
     <<-300819808, 364331765>>, <<-284359188, 718995267>>, <<-267814306, 837825751>>, <<-251190064, 115180208>>,
     <<-234491390, 429589231>>, <<-217723231, 603466676>>, <<-200890556, 869364471>>, <<-183998352, 342319030>>,
     <<-167051626, 497881144>>, <<-150055399, 655347159>>, <<-133014707, 465803414>>, <<-115934600, 404499976>>,
     <<-98820139, 267128526>>, <<-81676396, 669576882>>, <<-64508450, 550682616>>, <<-47321389, 677568322>>,
     <<-30120305, 153091394>>, <<-12910297, 924990024>>, <<4303538, 296242688>>, <<21516097, 436221987>>,
     <<38722280, 892173742>>, <<55916990, 100601888>>, <<73095129, 898077510>>, <<90251610, 31040458>>,
     <<107381346, 664163699>>, <<124479263, 886787567>>, <<141540295, 217042755>>, <<158559385, 103133610>>,
     <<175531490, 421428377>>, <<192451581, 970829705>>, <<209314645, 963047774>>, <<226115685, 508286951>>,
     <<242849722, 95935555>>, <<259511797, 69799155>>, <<276096973, 97467724>>, <<292600335, 633346809>>,
     <<309016994, 374947007>>, <<325342084, 711979229>>, <<341570769, 167854116>>, <<357698238, 833123572>>,
     <<373719714, 790469837>>, <<389630449, 530786682>>, <<405425728, 359995463>>, <<421100870, 796090543>>,
     <<436651231, 956064423>>, <<452072203, 932304295>>, <<467359217, 158000217>>, <<482507741, 761218967>>,
     <<497513288, 907180828>>, <<512371412, 128423298>>, <<527077708, 642371356>>, <<541627820, 655981695>>,
     <<556017436, 657044395>>, <<570242292, 691786501>>, <<584298173, 628368889>>, <<598180914, 405916364>>,
     <<611886401, 268723956>>, <<625410572, 985245494>>, <<638749422, 51527294>>, <<651898995, 878712251>>,
     <<664855397, 964285832>>, <<677614789, 46687926>>, <<690173388, 242971808>>, <<702527474, 169156396>>,
     <<714673386, 42960046>>, <<726607524, 768565494>>, <<738326354, 3106089>>, <<749826401, 204567894>>,
     <<761104258, 660773580>>, <<772156584, 499164023>>, <<782980103, 677062278>>, <<793571608, 952146512>>,
     <<803927961, 832820115>>, <<814046093, 508217328>>, <<823923005, 757553506>>, <<833555771, 838568882>>,
     <<842941537, 354783499>>, <<852077521, 101309632>>, <<860961015, 888993542>>, <<869589389, 346609898>>,
     <<877960084, 700888599>>, <<886070621, 534138070>>, <<893918596, 519256869>>, <<901501684, 131882919>>,
     <<908817637, 339503159>>, <<915864288, 267287163>>, <<922639548, 840487378>>, <<929141411, 403174522>>,
     <<935367949, 313148261>>, <<941317317, 512846863>>, <<946987753, 76074967>>, <<952377575, 730397496>>,
     <<957485188, 355039152>>, <<962309077, 454148398>>, <<966847813, 605277606>>, <<971100051, 882950344>>,
     <<975064532, 257194583>>, <<978740079, 966914922>>, <<982125605, 868000573>>, <<985220106, 756060532>>,
     <<988022665, 663697452>>, <<990532452, 132222629>>, <<992748722, 457740151>>, <<994670819, 911520954>>,
     <<996298174, 934607705>>, <<997630305, 306585696>>, <<998666816, 288475867>>, <<999407400, 739704688>>,
     <<999851839, 209116133>>, <<1000000000, 0>>
  >>

HourPeriod == 24
DoyPeriod == 365

SinHourOverYear(h) == SinDoyTable[h + 1]
SinHour(h) == SinHourTable[h + 1]
CosHour(h) == CosHourTable[h + 1]
SinDoy(d) == SinDoyTable[d]
CosDoy(d) == CosDoyTable[d]

-----------------------------------------------------------------------------
(* Derived features and defaults, app.py:61-63 *)

wind_direction_from_speed == Num(wind_speed)
wind_direction == Num(18000)
snow_depth == Num(0)

dew_point_plus(t) == Num(t + 500)
dew_point(t) == Num(t - 500)

(* The keys of input_data in insertion order, app.py:68-83 *)
MappingOrder ==
  << "Temperature", "Dew Point", "Relative Humidity", "Pressure",
     "Wind Speed", "Wind Direction", "Snow Depth", "Precipitable Water",
     "Solar Zenith Angle", "dayofyear", "hour_sin", "hour_cos",
     "doy_sin", "doy_cos" >>

MappingKeys == Range(MappingOrder)

(* input_data as built at app.py:52-83 from the widget values *)
Assemble(h, d, t, rh, p, ws, pw, sz) ==
  [k \in MappingKeys |->
     CASE k = "Temperature"        -> Num(t)
       [] k = "Dew Point"          -> dew_point(t)
       [] k = "Relative Humidity"  -> Num(rh)
       [] k = "Pressure"           -> Num(p)
       [] k = "Wind Speed"         -> Num(ws)
       [] k = "Wind Direction"     -> wind_direction
       [] k = "Snow Depth"         -> snow_depth
       [] k = "Precipitable Water" -> Num(pw)
       [] k = "Solar Zenith Angle" -> Num(sz)
       [] k = "dayofyear"          -> PyInt(d)
       [] k = "hour_sin"           -> Fix18(SinHour(h))
       [] k = "hour_cos"           -> Fix18(CosHour(h))
       [] k = "doy_sin"            -> Fix18(SinDoy(d))
       [] k = "doy_cos"            -> Fix18(CosDoy(d))]

(* pd.DataFrame([input_data]), app.py:85: one row, the columns in key order *)
DataFrame(m) ==
  [i \in 1..Len(MappingOrder) |->
     [name |-> MappingOrder[i], value |-> m[MappingOrder[i]]]]

Columns(df) == {df[i].name : i \in 1..Len(df)}

(* set(features) - set(X_input.columns), app.py:90 *)
MissingReversed(names, df) == Columns(df) \ Range(names)
Missing(names, df) == Range(names) \ Columns(df)

(* X_input[features], app.py:95: the named columns, in the order named *)
ColumnOf(df, n) == df[CHOOSE i \in 1..Len(df) : df[i].name = n]
SelectInFrameOrder(df, names) ==
  SelectSeq(df, LAMBDA c : c.name \in Range(names))
Select(df, names) == [i \in 1..Len(names) |-> ColumnOf(df, names[i])]

-----------------------------------------------------------------------------
(* Prediction post-processing, app.py:100-115 *)

(* model.predict(X_input)[0] with the stub loaded at app.py:10 *)
ModelPredict(m, X) ==
  CASE m.kind = "const" -> [ok |-> TRUE, out |-> Num(m.val)]
    [] m.kind = "nan"   -> [ok |-> TRUE, out |-> NaN]
    [] m.kind = "raise" -> [ok |-> FALSE, out |-> Undef]

(* Python's a > b on floats: False when either is NaN *)
Gt(a, b) == a.kind # "nan" /\ b.kind # "nan" /\ a.val > b.val

(* Python's max(a, b): the first argument unless the second is greater *)
PyMin(a, b) == IF Gt(a, b) THEN b ELSE a
PyMax(a, b) == IF Gt(b, a) THEN b ELSE a

efficiency_by_hour == IF hour = 12 THEN 16 ELSE 15
efficiency == 16

(* ghi_pred * efficiency, app.py:107 *)
Times(g, e) == IF g.kind = "nan" THEN NaN ELSE Num4(g.val * e)

(* f"{x:.2f}", app.py:114: round half to even, to hundredths *)
Format2f(x) ==
  IF x.kind = "nan" THEN NaN
  ELSE LET q == x.val \div 100
           r == x.val % 100
       IN  Num(IF r > 50 \/ (r = 50 /\ q % 2 = 1) THEN q + 1 ELSE q)

NoOutput == [kind |-> "none", missing |-> {}, text |-> Undef]
ErrorBox(names) == [kind |-> "error", missing |-> names, text |-> Undef]
SuccessBox(x) == [kind |-> "success", missing |-> {}, text |-> Format2f(x)]

-----------------------------------------------------------------------------
(* Bounds of the model *)

MaxFeatures == 2
MaxRequests == 2

(* Names an expected-feature list is drawn from: keys of the mapping and   *)
(* two names the mapping does not have.                                    *)
NameUniverse == {"Temperature", "Dew Point", "Foo", "Bar"}

BoundedLists ==
  UNION {[1..n -> NameUniverse] : n \in 0..MaxFeatures}

(* model_features.pkl, app.py:11: a short list, or all fourteen training   *)
(* features.                                                               *)
FeatureLists == BoundedLists \cup {MappingOrder}

(* xgboost_ghi_model.pkl, app.py:10: deterministic stubs *)
ModelStubs ==
  {[kind |-> "const", val |-> v] : v \in {-500, 0, 1, 10000, 25000}}
    \cup {[kind |-> "nan", val |-> 0], [kind |-> "raise", val |-> 0]}

(* Widget values a user submits, each within the widget's range            *)
(* (app.py:33-37), the defaults among them.                                *)
Hours == {0, 12, 23}
Days == {180}
Temperatures == {-3000, 2000}

-----------------------------------------------------------------------------
(* The script *)

NoRecord ==
  [inputs |-> <<>>, model |-> <<>>, features |-> <<>>, done |-> FALSE,
   outcome |-> <<>>]

(* State after the first run of the script: model and feature list loaded  *)
(* (app.py:10-11), the form at its defaults (app.py:33-42), submit False.  *)
InitWith(stubs, lists) ==
  /\ model \in stubs
  /\ features \in lists
  /\ hour = 12 /\ dayofyear = 180
  /\ temperature = 2000 /\ humidity = 5000 /\ pressure = 101300
  /\ wind_speed = 200 /\ precipitable_water = 150 /\ solar_zenith = 4500
  /\ submit = FALSE
  /\ pc = "idle"
  /\ input_data = <<>> /\ X_input = <<>> /\ missing_features = {}
  /\ raw_pred = Undef /\ ghi_pred = Undef /\ harvestable_energy = Undef
  /\ shown = NoOutput
  /\ calls = 0
  /\ requests = 0
  /\ first = NoRecord

Init == InitWith(ModelStubs, FeatureLists)

Finished == pc \in {"stopped", "done", "raised"}

(* A run of the script without a submission: `if submit` is False,         *)
(* app.py:50; the page shows the form only.                                *)
Rerun ==
  /\ Finished
  /\ submit' = FALSE
  /\ pc' = "idle"
  /\ input_data' = <<>> /\ X_input' = <<>> /\ missing_features' = {}
  /\ raw_pred' = Undef /\ ghi_pred' = Undef /\ harvestable_energy' = Undef
  /\ shown' = NoOutput
  /\ calls' = 0
  /\ UNCHANGED <<model, features, widgets, requests, first>>

(* The form is submitted and the script runs app.py:50-85.                 *)
SubmitFrom(H, D, T) ==
  /\ pc = "idle" \/ Finished
  /\ requests < MaxRequests
  /\ \E h \in H, d \in D, t \in T :
       /\ hour' = h /\ dayofyear' = d /\ temperature' = t
       /\ input_data' = Assemble(h, d, t, humidity, pressure, wind_speed,
                                 precipitable_water, solar_zenith)
  /\ X_input' = DataFrame(input_data')
  /\ submit' = TRUE
  /\ pc' = "assembled"
  /\ missing_features' = {}
  /\ raw_pred' = Undef /\ ghi_pred' = Undef /\ harvestable_energy' = Undef
  /\ shown' = NoOutput
  /\ calls' = 0
  /\ requests' = requests + 1
  /\ UNCHANGED <<model, features, humidity, pressure, wind_speed,
                 precipitable_water, solar_zenith>>
  /\ first' = IF requests = 0
                THEN [NoRecord EXCEPT !.inputs = widgets', !.model = model,
                                      !.features = features]
                ELSE first

Submit == SubmitFrom(Hours, Days, Temperatures)

(* What a finished request leaves *)
Outcome(p, s, e) == [pc |-> p, shown |-> s, energy |-> e]

Record(out) ==
  IF requests = 1 /\ ~first.done
    THEN [first EXCEPT !.done = TRUE, !.outcome = out]
    ELSE first

(* app.py:90-95 *)
ValidateDropping ==
  /\ pc = "assembled"
  /\ missing_features' = Missing(features, X_input)
  /\ features' = SelectSeq(features, LAMBDA n : n \in Columns(X_input))
  /\ X_input' = Select(X_input, features')
  /\ pc' = "validated"
  /\ UNCHANGED <<model, widgets, submit, input_data, raw_pred, ghi_pred,
                 harvestable_energy, shown, calls, requests, first>>
ValidateNoStop ==
  /\ pc = "assembled"
  /\ missing_features' = Missing(features, X_input)
  /\ shown' = IF missing_features' # {} THEN ErrorBox(missing_features')
                                        ELSE shown
  /\ X_input' = SelectSeq(X_input, LAMBDA c : c.name \in Range(features))
  /\ pc' = "validated"
  /\ UNCHANGED <<model, features, widgets, submit, input_data, raw_pred,
                 ghi_pred, harvestable_energy, calls, requests, first>>
Validate ==
  /\ pc = "assembled"
  /\ missing_features' = Missing(features, X_input)
  /\ IF missing_features' # {}
       THEN /\ shown' = ErrorBox(missing_features')
            /\ pc' = "stopped"
            /\ first' = Record(Outcome(pc', shown', harvestable_energy))
            /\ UNCHANGED X_input
       ELSE /\ X_input' = Select(X_input, features)
            /\ pc' = "validated"
            /\ UNCHANGED <<shown, first>>
  /\ UNCHANGED <<model, features, widgets, submit, input_data, raw_pred,
                 ghi_pred, harvestable_energy, calls, requests>>

(* app.py:100, the call and the subscript *)
PredictWithFallback ==
  /\ pc = "validated"
  /\ LET r == ModelPredict(model, X_input)
     IN  /\ calls' = calls + 1
         /\ raw_pred' = IF r.ok THEN r.out ELSE Num(0)
         /\ ghi_pred' = raw_pred'
         /\ pc' = "predicted"
  /\ UNCHANGED <<model, features, widgets, submit, input_data, X_input,
                 missing_features, harvestable_energy, shown, requests,
                 first>>
Predict ==
  /\ pc = "validated"
  /\ LET r == ModelPredict(model, X_input)
     IN  /\ calls' = calls + 1
         /\ IF r.ok
              THEN /\ raw_pred' = r.out
                   /\ ghi_pred' = r.out
                   /\ pc' = "predicted"
                   /\ UNCHANGED first
              ELSE /\ pc' = "raised"
                   /\ first' = Record(Outcome(pc', shown, harvestable_energy))
                   /\ UNCHANGED <<raw_pred, ghi_pred>>
  /\ UNCHANGED <<model, features, widgets, submit, input_data, X_input,
                 missing_features, harvestable_energy, shown, requests>>

(* app.py:101-120 *)
Display ==
  /\ pc = "predicted"
  /\ ghi_pred' = PyMax(Num(0), ghi_pred)
  /\ harvestable_energy' = Times(ghi_pred', efficiency)
  /\ shown' = SuccessBox(harvestable_energy')
  /\ pc' = "done"
  /\ first' = Record(Outcome(pc', shown', harvestable_energy'))
  /\ UNCHANGED <<model, features, widgets, submit, input_data, X_input,
                 missing_features, raw_pred, calls, requests>>

Next == Rerun \/ Submit \/ Validate \/ Predict \/ Display

Spec == Init /\ [][Next]_vars

-----------------------------------------------------------------------------
(* The encoding over the whole range of the two sliders, app.py:33-34, the *)
(* other inputs at their defaults.                                         *)

HourRange == 0..23
DayRange == 1..365

Encode == SubmitFrom(HourRange, DayRange, {2000})

EncodeInit ==
  InitWith({[kind |-> "const", val |-> 25000]}, {MappingOrder})

EncodeSpec == EncodeInit /\ [][Encode]_vars

-----------------------------------------------------------------------------
(* Properties *)

PastValidation == pc \in {"validated", "predicted", "done", "raised", "stopped"}
Defaults == <<12, 180, 2000, 5000, 101300, 200, 150, 4500>>

(* C1: when some expected feature name is not a key of the mapping, a      *)
(* request that has reached validation is stopped with an error box whose  *)
(* set is exactly the expected names minus the mapping's keys; nothing     *)
(* further of the script can run, the model has not been called and there  *)
(* is no harvestable-energy value.                                         *)
C1_MissingFeaturesHalt ==
  (PastValidation /\ ~(Range(features) \subseteq MappingKeys)) =>
     /\ pc = "stopped"
     /\ missing_features = Range(features) \ MappingKeys
     /\ shown = ErrorBox(Range(features) \ MappingKeys)
     /\ calls = 0
     /\ raw_pred = Undef /\ ghi_pred = Undef /\ harvestable_energy = Undef
     /\ ~ENABLED Predict /\ ~ENABLED Display

C1_Witness ==
  /\ pc = "stopped"
  /\ features = <<"Temperature", "Foo">>
  /\ shown.kind = "error" /\ shown.missing = {"Foo"}

(* C2: once validation has passed, X_input has one column per expected     *)
(* name, the i-th column is the i-th expected name with the mapping's      *)
(* value for it, and no key outside the expected list is a column.         *)
C2_VectorOrdered ==
  pc \in {"validated", "predicted", "done", "raised"} =>
     /\ Range(features) \subseteq MappingKeys
     /\ Len(X_input) = Len(features)
     /\ \A i \in 1..Len(features) :
          /\ X_input[i].name = features[i]
          /\ X_input[i].value = input_data[features[i]]
     /\ \A k \in MappingKeys \ Range(features) : k \notin Columns(X_input)

C2_Witness ==
  /\ pc = "predicted"
  /\ features = <<"Dew Point", "Temperature">>
  /\ temperature = 2000
  /\ X_input = << [name |-> "Dew Point", value |-> Num(1500)],
                  [name |-> "Temperature", value |-> Num(2000)] >>

(* C3: when a result is displayed, the GHI used is the raw output if that  *)
(* is a number above zero and 0 otherwise, and neither the energy nor the  *)
(* displayed figure is negative; raw -5.0 gives GHI 0 and energy 0.0.      *)
C3_ClampNonNegative ==
  pc = "done" =>
     /\ ghi_pred = IF raw_pred.kind = "num" /\ raw_pred.val > 0
                     THEN raw_pred ELSE Num(0)
     /\ harvestable_energy.kind = "num4" /\ harvestable_energy.val >= 0
     /\ shown.text.kind = "num" /\ shown.text.val >= 0
     /\ raw_pred = Num(-500) =>
          /\ ghi_pred = Num(0)
          /\ harvestable_energy = Num4(0)
          /\ shown.text = Num(0)

C3_Witness ==
  /\ pc = "done"
  /\ raw_pred = Num(-500)
  /\ ghi_pred = Num(0)
  /\ shown.text = Num(0)

(* C4: for a non-negative raw output r the energy is r * 0.16 whatever the *)
(* inputs; raw 100.0 displays 16.00; the default inputs with a stub that   *)
(* returns 250.0 display 40.00.                                            *)
C4_EnergyIsSixteenPercent ==
  (pc = "done" /\ raw_pred.kind = "num" /\ raw_pred.val >= 0) =>
     /\ harvestable_energy = Num4(raw_pred.val * 16)
     /\ raw_pred = Num(10000) => shown.text = Num(1600)
     /\ (widgets = Defaults /\ model = [kind |-> "const", val |-> 25000]) =>
          shown.text = Num(4000)

C4_Witness ==
  /\ pc = "done"
  /\ widgets = Defaults
  /\ model = [kind |-> "const", val |-> 25000]
  /\ features = MappingOrder
  /\ shown.text = Num(4000)

(* C5: the model and the feature list are the ones the first request       *)
(* started with, and a later request with the first request's inputs       *)
(* finishes with the first request's outcome.                              *)
C5_RepeatableRequests ==
  requests >= 1 =>
     /\ model = first.model
     /\ features = first.features
     /\ (Finished /\ first.done /\ widgets = first.inputs) =>
          Outcome(pc, shown, harvestable_energy) = first.outcome

C5_Witness ==
  /\ requests = 2
  /\ pc = "done"
  /\ first.done
  /\ widgets = first.inputs
  /\ first.outcome.shown.text = Num(4000)

(* C6: in the assembled mapping "Dew Point" is the temperature stored      *)
(* under "Temperature" minus 5.0, whatever the other inputs.               *)
C6_DewPoint ==
  submit =>
     /\ input_data["Temperature"] = Num(temperature)
     /\ input_data["Dew Point"] = Num(temperature - 500)

C6_Witness ==
  /\ submit
  /\ temperature = -3000
  /\ hour = 23
  /\ input_data["Dew Point"] = Num(-3500)

(* C7: the assembled mapping holds Wind Direction 180.0 and Snow Depth     *)
(* 0.0, whatever was submitted.                                            *)
C7_FixedDefaults ==
  submit =>
     /\ input_data["Wind Direction"] = Num(18000)
     /\ input_data["Snow Depth"] = Num(0)

C7_Witness ==
  /\ submit
  /\ hour = 0 /\ temperature = -3000
  /\ input_data["Wind Direction"] = Num(18000)
  /\ input_data["Snow Depth"] = Num(0)

(* -1 <= p <= 1 for a "fix18" pair *)
InUnit(p) ==
  /\ p[1] >= -(10^9)
  /\ p[1] < 10^9 \/ (p[1] = 10^9 /\ p[2] = 0)

(* |a - b| <= 10^-14 for "fix18" pairs *)
Close(a, b) ==
  /\ a[1] - b[1] \in {-1, 0, 1}
  /\ LET diff == (a[1] - b[1]) * 10^9 + (a[2] - b[2])
     IN  diff <= 10^4 /\ -diff <= 10^4

(* C8, amended: for hour in 0..23 and dayofyear in 1..365 the four         *)
(* encodings lie in [-1,1], and one period later (hour+24, dayofyear+365)  *)
(* each is within 10^-14 of its value.                                     *)
C8_BoundedNearlyPeriodic ==
  submit =>
     /\ hour \in HourRange =>
          /\ InUnit(input_data["hour_sin"].val)
          /\ InUnit(input_data["hour_cos"].val)
          /\ Close(input_data["hour_sin"].val, SinHour(hour + HourPeriod))
          /\ Close(input_data["hour_cos"].val, CosHour(hour + HourPeriod))
     /\ dayofyear \in DayRange =>
          /\ InUnit(input_data["doy_sin"].val)
          /\ InUnit(input_data["doy_cos"].val)
          /\ Close(input_data["doy_sin"].val, SinDoy(dayofyear + DoyPeriod))
          /\ Close(input_data["doy_cos"].val, CosDoy(dayofyear + DoyPeriod))

C8_Witness ==
  /\ submit
  /\ hour = 0 /\ dayofyear = 365
  /\ input_data["hour_sin"].val = <<0, 0>>
  /\ SinHour(hour + HourPeriod) # <<0, 0>>

(* C8, as stated: the encodings lie in [-1,1], hour 0 and hour 24 give the *)
(* same (sin, cos) pair, and dayofyear and dayofyear+365 give the same     *)
(* pair.                                                                   *)
C8_ExactlyPeriodic ==
  submit =>
     /\ hour \in HourRange =>
          /\ InUnit(input_data["hour_sin"].val)
          /\ InUnit(input_data["hour_cos"].val)
     /\ hour = 0 =>
          /\ input_data["hour_sin"].val = SinHour(HourPeriod)
          /\ input_data["hour_cos"].val = CosHour(HourPeriod)
     /\ dayofyear \in DayRange =>
          /\ InUnit(input_data["doy_sin"].val)
          /\ InUnit(input_data["doy_cos"].val)
          /\ input_data["doy_sin"].val = SinDoy(dayofyear + DoyPeriod)
          /\ input_data["doy_cos"].val = CosDoy(dayofyear + DoyPeriod)

(* C9: when the model call fails the run ends there: the model was called  *)
(* once, nothing further of the script can run, no prediction or energy    *)
(* value exists and nothing is displayed; a failing model never leads to a *)
(* displayed result.                                                       *)
C9_ModelFailurePropagates ==
  /\ pc = "raised" =>
       /\ calls = 1
       /\ raw_pred = Undef /\ ghi_pred = Undef /\ harvestable_energy = Undef
       /\ shown = NoOutput
       /\ ~ENABLED Predict /\ ~ENABLED Display
  /\ (model.kind = "raise" /\ calls >= 1) => pc = "raised"

C9_Witness ==
  /\ pc = "raised"
  /\ model.kind = "raise"
  /\ calls = 1
  /\ features = MappingOrder

(* What holds at every point of a run: the model is called at most once,   *)
(* only in a submitted run whose validation found nothing missing; an      *)
(* error box and a result never coexist; a run that has ended with a model *)
(* that does not fail shows exactly one of them; without a submission the  *)
(* model is not called and nothing is shown.                               *)
RunInvariant ==
  /\ calls <= 1
  /\ calls = 1 =>
       /\ submit
       /\ missing_features = {}
       /\ Range(features) \subseteq MappingKeys
       /\ pc \in {"predicted", "done", "raised"}
  /\ pc \in {"predicted", "done", "raised"} => calls = 1
  /\ ~submit => (pc = "idle" /\ calls = 0 /\ shown = NoOutput)
  /\ shown.kind = "error" => (pc = "stopped" /\ harvestable_energy = Undef)
  /\ shown.kind = "success" => (pc = "done" /\ missing_features = {})
  /\ (Finished /\ model.kind # "raise") =>
       /\ shown.kind \in {"error", "success"}
       /\ (pc = "stopped") = (shown.kind = "error")
       /\ (pc = "done") = (shown.kind = "success")

(* The interpreter runs a started script to its end. *)
FairSpec ==
  Spec /\ WF_vars(Validate) /\ WF_vars(Predict) /\ WF_vars(Display)

(* C10: within a request validation precedes the model call, the model is  *)
(* called at most once and only after validation passed, a missing-        *)
(* features error and a displayed result exclude each other, every         *)
(* submitted request comes to an end, where (the model not failing)        *)
(* exactly one of the two is shown; without a submission the model is not  *)
(* called.                                                                 *)
C10_OrderedExclusive ==
  /\ []RunInvariant
  /\ [][calls' > calls => (pc = "validated" /\ missing_features = {})]_vars
  /\ (pc = "assembled") ~> Finished

C10_Witness ==
  /\ pc = "done"
  /\ calls = 1
  /\ requests = 2
  /\ shown.kind = "success"

=============================================================================
